---- MODULE Spec2Model ----
(***************************************************************************)
(* A model of the functionalparser library (src/src/functionalparser/      *)
(* __init__.py): parsers are pure functions from an input string to a      *)
(* triple (success, value, remainder).  A parser value is modelled by the  *)
(* expression that built it (the closure's captured arguments); calling it *)
(* is modelled by the operator Run, which evaluates the closure's body.    *)
(* Strings are sequences of one-character strings.                         *)
(***************************************************************************)
EXTENDS Integers, Sequences, FiniteSets, TLC

VARIABLES
    parser,         \* the factory call being evaluated, then the callable it built
    in_str,         \* the input string of the call
    pc,             \* "build" | "raised" (the factory raised) | "ready" |
                    \* "loop" (inside star's / star_join's while) | "done"
    out,            \* the outcome of the call
    results,        \* star_parser's local: the list built so far
    joined_result,  \* star_join_parser's local: the string built so far
    success,        \* star_parser / star_join_parser local
    result,         \* star_parser / star_join_parser local
    rest,           \* star_parser / star_join_parser local
    p_index,        \* chain_parser's for loop: the position of p in parsers
    suspended       \* the locals of a second invocation of the same
                    \* callable, while the other invocation runs

vars == <<parser, in_str, pc, out, results, joined_result, success, result, rest,
          p_index, suspended>>

(***************************************************************************)
(* Bounds                                                                  *)
(***************************************************************************)
\* longest input string
MaxLen == 3
\* A loop of star / star_join that has run MaxIter iterations on an input of
\* at most MaxLen characters cannot have consumed a character in each of
\* them: the call it repeats is a pure function of an unchanged remainder,
\* so the loop never ends.
MaxIter == MaxLen + 2

\* characters of the inputs: two digits, the two signs, one whitespace
Chars == {"0", "7", "-", "+", " "}

RECURSIVE StringsUpTo(_)
StringsUpTo(n) ==
    IF n = 0 THEN {<<>>}
    ELSE LET shorter == StringsUpTo(n - 1)
         IN  shorter \cup {Append(s, c) : s \in {x \in shorter : Len(x) = n - 1}, c \in Chars}

Inputs == StringsUpTo(MaxLen)

(***************************************************************************)
(* Python values: None, str, list, int                                     *)
(***************************************************************************)
None == [k |-> "None"]
StrVal(s) == [k |-> "str", s |-> s]
ListVal(l) == [k |-> "list", l |-> l]
IntVal(n) == [k |-> "int", n |-> n]

(***************************************************************************)
(* Outcomes of a call: a returned triple, an exception that escapes the    *)
(* call, or no return at all (a loop that never ends).                     *)
(***************************************************************************)
Ret(su, v, r) == [kind |-> "ret", success |-> su, value |-> v, rest |-> r]
Raise(e) == [kind |-> "raise", exc |-> e]
Diverge == [kind |-> "diverge"]
NoOut == [kind |-> "none"]
\* finalize_parser returns the bare value, not a triple
RetValue(v) == [kind |-> "value", value |-> v]

(***************************************************************************)
(* str helpers                                                             *)
(***************************************************************************)
\* in_str[:n] and in_str[n:] for n >= 0
Take(s, n) == SubSeq(s, 1, IF n < Len(s) THEN n ELSE Len(s))
Drop(s, n) == SubSeq(s, (IF n < Len(s) THEN n ELSE Len(s)) + 1, Len(s))
\* in_str.startswith(prefix)
StartsWith(s, prefix) == Len(prefix) <= Len(s) /\ SubSeq(s, 1, Len(prefix)) = prefix
\* str.isspace() of one character
Whitespace == {" ", "\t", "\n", "\r"}
IsSpace(c) == c \in Whitespace
DigitChars == {"0", "1", "2", "3", "4", "5", "6", "7", "8", "9"}
DigitValue(c) ==
    CASE c = "0" -> 0 [] c = "1" -> 1 [] c = "2" -> 2 [] c = "3" -> 3 [] c = "4" -> 4
      [] c = "5" -> 5 [] c = "6" -> 6 [] c = "7" -> 7 [] c = "8" -> 8 [] c = "9" -> 9

RECURSIVE Concat(_)
\* ''.join(l) for a sequence of strings
Concat(l) == IF l = <<>> THEN <<>> ELSE Head(l) \o Concat(Tail(l))

(***************************************************************************)
(* Transformers: the mappings handed to transform.  Applying one either    *)
(* returns a value or raises an Exception.                                 *)
(***************************************************************************)
Returned(v) == [ok |-> TRUE, v |-> v]
Raised == [ok |-> FALSE]

RECURSIVE LStrip(_)
LStrip(s) == IF s # <<>> /\ IsSpace(Head(s)) THEN LStrip(Tail(s)) ELSE s
RECURSIVE RStrip(_)
RStrip(s) == IF s # <<>> /\ IsSpace(s[Len(s)]) THEN RStrip(SubSeq(s, 1, Len(s) - 1)) ELSE s
RECURSIVE Decimal(_)
\* the number a non-empty run of digits denotes
Decimal(ds) == IF ds = <<>> THEN 0 ELSE 10 * Decimal(SubSeq(ds, 1, Len(ds) - 1)) + DigitValue(ds[Len(ds)])

\* int(x) of Python: a str is stripped of surrounding whitespace, then an
\* optional single sign and at least one digit; anything else raises
\* ValueError; a list or None raises TypeError; an int is returned as is.
PyInt(x) ==
    CASE x.k = "int" -> Returned(x)
      [] x.k = "str" ->
            LET t == RStrip(LStrip(x.s))
                signed == t # <<>> /\ Head(t) \in {"-", "+"}
                ds == IF signed THEN Tail(t) ELSE t
            IN  IF ds # <<>> /\ \A i \in 1..Len(ds) : ds[i] \in DigitChars
                THEN Returned(IntVal(IF signed /\ Head(t) = "-" THEN 0 - Decimal(ds) ELSE Decimal(ds)))
                ELSE Raised
      [] OTHER -> Raised

\* lambda x: ''.join(x): joins a list of str (or the characters of a str);
\* raises TypeError on None, an int, or a list holding a non-str
PyJoin(x) ==
    CASE x.k = "list" ->
            IF \A i \in 1..Len(x.l) : x.l[i].k = "str"
            THEN Returned(StrVal(Concat([i \in 1..Len(x.l) |-> x.l[i].s])))
            ELSE Raised
      [] x.k = "str" -> Returned(x)
      [] OTHER -> Raised

\* lambda x: x * 2: raises TypeError on None
PyDouble(x) ==
    CASE x.k = "str" -> Returned(StrVal(x.s \o x.s))
      [] x.k = "list" -> Returned(ListVal(x.l \o x.l))
      [] x.k = "int" -> Returned(IntVal(2 * x.n))
      [] OTHER -> Raised

Transformers == {"int", "join", "double"}

Apply(transformer, x) ==
    CASE transformer = "int" -> PyInt(x)
      [] transformer = "join" -> PyJoin(x)
      [] transformer = "double" -> PyDouble(x)

(***************************************************************************)
(* Parser values: what each factory returns (a closure over its arguments) *)
(***************************************************************************)
\* a module-level function used as a parser: digit, single_whitespace,
\* all_whitespace, eof, noop, parse_int
Fn(name) == [t |-> name]
take_n(n) == [t |-> "take_n", n |-> n]
get_char_in(character_set) == [t |-> "get_char_in", character_set |-> character_set]
get(prefix) == [t |-> "get", prefix |-> prefix]
star(p) == [t |-> "star", parser |-> p]
star_join(p) == [t |-> "star_join", parser |-> p]
optional(p) == [t |-> "optional", parser |-> p]
chain(ps, skip) == [t |-> "chain", parsers |-> ps, skip_none_result |-> skip]
chain_join(ps) == [t |-> "chain_join", parsers |-> ps]
any_of(ps, alo) == [t |-> "any_of", parsers |-> ps, at_least_one |-> alo]
transform(p, f) == [t |-> "transform", parser |-> p, transformer |-> f]
ignore_whitespace(p, m) == [t |-> "ignore_whitespace", parser |-> p, ignore_whitespace_type |-> m]
fails(p) == [t |-> "fails", parser |-> p]
finalize(p, allow) == [t |-> "finalize", parser |-> p, allow_unparsed_remaining |-> allow]

IgnoreWhitespaceType == {"BEFORE", "AFTER", "AROUND"}

\* Run(p, s): the call p(s)
RECURSIVE Run(_, _)

(***************************************************************************)
(* GENERATORS                                                              *)
(***************************************************************************)
\* take_n_parser with the two slices swapped
take_n_parser_swapped(n, s) ==
    IF Len(s) >= n THEN Ret(TRUE, StrVal(Drop(s, n)), Take(s, n))
    ELSE Ret(FALSE, None, s)

take_n_parser(n, s) ==
    IF Len(s) >= n THEN Ret(TRUE, StrVal(Take(s, n)), Drop(s, n))
    ELSE Ret(FALSE, None, s)

\* get_in_parser taking the first character whatever the character set
get_in_parser_any(character_set, s) ==
    IF Len(s) > 0 THEN Ret(TRUE, StrVal(<<s[1]>>), Tail(s))
    ELSE Ret(FALSE, None, s)

get_in_parser(character_set, s) ==
    IF Len(s) > 0 /\ s[1] \in character_set THEN Ret(TRUE, StrVal(<<s[1]>>), Tail(s))
    ELSE Ret(FALSE, None, s)

get_parser(prefix, s) ==
    IF StartsWith(s, prefix) THEN Ret(TRUE, StrVal(prefix), Drop(s, Len(prefix)))
    ELSE Ret(FALSE, None, s)

(***************************************************************************)
(* COMBINATORS                                                             *)
(***************************************************************************)
RECURSIVE star_loop(_, _, _, _)
\* the while loop of star_parser; r is the outcome of the latest call of
\* the inner parser, n the number of iterations run
star_loop(p, acc, r, n) ==
    IF r.kind # "ret" THEN r
    ELSE IF ~r.success THEN Ret(TRUE, ListVal(acc), r.rest)
    ELSE IF n >= MaxIter THEN Diverge
    ELSE star_loop(p, Append(acc, r.value), Run(p, r.rest), n + 1)

star_parser(p, s) == star_loop(p, <<>>, Run(p, s), 0)

RECURSIVE star_join_loop(_, _, _, _)
\* the while loop of star_join_parser; joined_result += result raises
\* TypeError unless result is a str
star_join_loop(p, acc, r, n) ==
    IF r.kind # "ret" THEN r
    ELSE IF ~r.success THEN Ret(TRUE, StrVal(acc), r.rest)
    ELSE IF r.value.k # "str" THEN Raise("TypeError")
    ELSE IF n >= MaxIter THEN Diverge
    ELSE star_join_loop(p, acc \o r.value.s, Run(p, r.rest), n + 1)

star_join_parser(p, s) == star_join_loop(p, <<>>, Run(p, s), 0)

\* optional_parser passing the inner success flag on
optional_parser_passthrough(p, s) == Run(p, s)

optional_parser(p, s) ==
    LET r == Run(p, s)
    IN  IF r.kind # "ret" THEN r ELSE Ret(TRUE, r.value, r.rest)

RECURSIVE chain_loop(_, _, _, _, _)
\* chain_parser failing with the remainder of the parsers that succeeded
chain_loop_norollback(ps, skip, s, i, st) ==
    IF i > Len(ps) THEN Ret(TRUE, ListVal(st.results), st.rest)
    ELSE LET r == Run(ps[i], st.rest)
         IN  IF r.kind # "ret" THEN r
             ELSE IF ~r.success THEN Ret(FALSE, None, st.rest)
             ELSE chain_loop(ps, skip, s, i + 1,
                    [results |-> IF r.value # None \/ ~skip
                                 THEN Append(st.results, r.value) ELSE st.results,
                     rest |-> r.rest])

\* chain_parser leaving out every None, whatever skip_none_result
chain_loop_dropnone(ps, skip, s, i, st) ==
    IF i > Len(ps) THEN Ret(TRUE, ListVal(st.results), st.rest)
    ELSE LET r == Run(ps[i], st.rest)
         IN  IF r.kind # "ret" THEN r
             ELSE IF ~r.success THEN Ret(FALSE, None, s)
             ELSE chain_loop(ps, skip, s, i + 1,
                    [results |-> IF r.value # None
                                 THEN Append(st.results, r.value) ELSE st.results,
                     rest |-> r.rest])

\* the for loop of chain_parser from the i-th parser on
chain_loop(ps, skip, s, i, st) ==
    IF i > Len(ps) THEN Ret(TRUE, ListVal(st.results), st.rest)
    ELSE LET r == Run(ps[i], st.rest)
         IN  IF r.kind # "ret" THEN r
             ELSE IF ~r.success THEN Ret(FALSE, None, s)
             ELSE chain_loop(ps, skip, s, i + 1,
                    [results |-> IF r.value # None \/ ~skip
                                 THEN Append(st.results, r.value) ELSE st.results,
                     rest |-> r.rest])

chain_parser(ps, skip, s) == chain_loop(ps, skip, s, 1, [results |-> <<>>, rest |-> s])

RECURSIVE chain_join_loop(_, _, _, _)
\* the for loop of chain_parser_join from the i-th parser on
chain_join_loop(ps, s, i, st) ==
    IF i > Len(ps) THEN Ret(TRUE, StrVal(st.joined_result), st.rest)
    ELSE LET r == Run(ps[i], st.rest)
         IN  IF r.kind # "ret" THEN r
             ELSE IF ~r.success THEN Ret(FALSE, None, s)
             ELSE IF r.value # None /\ r.value.k # "str" THEN Raise("TypeError")
             ELSE chain_join_loop(ps, s, i + 1,
                    [joined_result |-> IF r.value # None
                                       THEN st.joined_result \o r.value.s
                                       ELSE st.joined_result,
                     rest |-> r.rest])

chain_parser_join(ps, s) == chain_join_loop(ps, s, 1, [joined_result |-> <<>>, rest |-> s])

RECURSIVE any_of_loop(_, _, _, _)
\* any_of_parser returning at_least_one, not its negation, when no parser
\* succeeds
any_of_loop_flag(ps, alo, s, i) ==
    IF i > Len(ps) THEN Ret(alo, None, s)
    ELSE LET r == Run(ps[i], s)
         IN  IF r.kind # "ret" THEN r
             ELSE IF r.success THEN r
             ELSE any_of_loop(ps, alo, s, i + 1)

\* the for loop of any_of_parser from the i-th parser on
any_of_loop(ps, alo, s, i) ==
    IF i > Len(ps) THEN Ret(~alo, None, s)
    ELSE LET r == Run(ps[i], s)
         IN  IF r.kind # "ret" THEN r
             ELSE IF r.success THEN r
             ELSE any_of_loop(ps, alo, s, i + 1)

any_of_parser(ps, alo, s) == any_of_loop(ps, alo, s, 1)

\* transform_parser keeping the inner parser's consumption when the
\* transformer raises
transform_parser_norollback(p, transformer, s) ==
    LET r == Run(p, s)
    IN  IF r.kind # "ret" THEN r
        ELSE IF r.success
        THEN LET m == Apply(transformer, r.value)
             IN  IF m.ok THEN Ret(TRUE, m.v, r.rest) ELSE Ret(FALSE, None, r.rest)
        ELSE r

\* transform_parser failing with the untransformed value
transform_parser_keepvalue(p, transformer, s) ==
    LET r == Run(p, s)
    IN  IF r.kind # "ret" THEN r
        ELSE IF r.success
        THEN LET m == Apply(transformer, r.value)
             IN  IF m.ok THEN Ret(TRUE, m.v, r.rest) ELSE Ret(FALSE, r.value, s)
        ELSE r

transform_parser(p, transformer, s) ==
    LET r == Run(p, s)
    IN  IF r.kind # "ret" THEN r
        ELSE IF r.success
        THEN LET m == Apply(transformer, r.value)
             IN  IF m.ok THEN Ret(TRUE, m.v, r.rest) ELSE Ret(FALSE, None, s)
        ELSE r

\* ignore_whitespace_parser failing with the trimmed input as remainder
ignore_whitespace_parser_trimmed(p, m, s) ==
    LET before == IF m \in {"BEFORE", "AROUND"} THEN Run(Fn("all_whitespace"), s) ELSE Ret(TRUE, None, s)
        r == Run(p, before.rest)
    IN  IF r.kind # "ret" THEN r
        ELSE IF ~r.success THEN Ret(FALSE, None, before.rest)
        ELSE IF m \in {"AFTER", "AROUND"}
        THEN Ret(TRUE, r.value, Run(Fn("all_whitespace"), r.rest).rest)
        ELSE Ret(TRUE, r.value, r.rest)

ignore_whitespace_parser(p, m, s) ==
    LET before == IF m \in {"BEFORE", "AROUND"} THEN Run(Fn("all_whitespace"), s) ELSE Ret(TRUE, None, s)
        r == Run(p, before.rest)
    IN  IF r.kind # "ret" THEN r
        ELSE IF ~r.success THEN Ret(FALSE, None, s)
        ELSE IF m \in {"AFTER", "AROUND"}
        THEN Ret(TRUE, r.value, Run(Fn("all_whitespace"), r.rest).rest)
        ELSE Ret(TRUE, r.value, r.rest)

\* fails_parser returning the inner parser's remainder
fails_parser_consuming(p, s) ==
    LET r == Run(p, s)
    IN  IF r.kind # "ret" THEN r ELSE Ret(~r.success, None, r.rest)

fails_parser(p, s) ==
    LET r == Run(p, s)
    IN  IF r.kind # "ret" THEN r ELSE Ret(~r.success, None, s)

\* finalize_parser raising on leftover input whatever allow_unparsed_remaining
finalize_parser_strict(p, allow, s) ==
    LET r == Run(p, s)
    IN  IF r.kind # "ret" THEN r
        ELSE IF ~r.success THEN Raise("ValueError")
        ELSE IF Len(r.rest) # 0 THEN Raise("ValueError")
        ELSE RetValue(r.value)

finalize_parser(p, allow, s) ==
    LET r == Run(p, s)
    IN  IF r.kind # "ret" THEN r
        ELSE IF ~r.success THEN Raise("ValueError")
        ELSE IF Len(r.rest) # 0 /\ ~allow THEN Raise("ValueError")
        ELSE RetValue(r.value)

(***************************************************************************)
(* PARSERS                                                                 *)
(***************************************************************************)
digit(s) == get_in_parser(DigitChars, s)

single_whitespace(s) ==
    IF Len(s) > 0 /\ IsSpace(s[1]) THEN Ret(TRUE, StrVal(<<s[1]>>), Tail(s))
    ELSE Ret(FALSE, None, s)

\* all_whitespace taking one whitespace character at most
all_whitespace_once(s) ==
    LET r == single_whitespace(s)
    IN  Ret(TRUE, StrVal(IF r.success THEN r.value.s ELSE <<>>), r.rest)

all_whitespace(s) == Run(transform(star(Fn("single_whitespace")), "join"), s)

eof(s) == Ret(s = <<>>, None, s)

noop(s) == Ret(TRUE, None, s)

\* parse_int's parser with any_of left at its default, at_least_one=True
int_parser_sign_required ==
    transform(chain_join(<<any_of(<<get(<<"-">>), get(<<"+">>)>>, TRUE),
                           star_join(Fn("digit"))>>),
              "int")

int_parser ==
    transform(chain_join(<<any_of(<<get(<<"-">>), get(<<"+">>)>>, FALSE),
                           star_join(Fn("digit"))>>),
              "int")

parse_int(s) == Run(int_parser, s)

Run(p, s) ==
    CASE p.t = "take_n" -> take_n_parser(p.n, s)
      [] p.t = "get_char_in" -> get_in_parser(p.character_set, s)
      [] p.t = "get" -> get_parser(p.prefix, s)
      [] p.t = "star" -> star_parser(p.parser, s)
      [] p.t = "star_join" -> star_join_parser(p.parser, s)
      [] p.t = "optional" -> optional_parser(p.parser, s)
      [] p.t = "chain" -> chain_parser(p.parsers, p.skip_none_result, s)
      [] p.t = "chain_join" -> chain_parser_join(p.parsers, s)
      [] p.t = "any_of" -> any_of_parser(p.parsers, p.at_least_one, s)
      [] p.t = "transform" -> transform_parser(p.parser, p.transformer, s)
      [] p.t = "ignore_whitespace" -> ignore_whitespace_parser(p.parser, p.ignore_whitespace_type, s)
      [] p.t = "fails" -> fails_parser(p.parser, s)
      [] p.t = "finalize" -> finalize_parser(p.parser, p.allow_unparsed_remaining, s)
      [] p.t = "digit" -> digit(s)
      [] p.t = "single_whitespace" -> single_whitespace(s)
      [] p.t = "all_whitespace" -> all_whitespace(s)
      [] p.t = "eof" -> eof(s)
      [] p.t = "noop" -> noop(s)
      [] p.t = "parse_int" -> parse_int(s)

(***************************************************************************)
(* The parser values the model builds and calls                            *)
(***************************************************************************)
Base ==
    {take_n(1), take_n(2), get(<<>>), get(<<"-">>),
     Fn("digit"), Fn("single_whitespace"), Fn("all_whitespace"),
     Fn("eof"), Fn("noop"), Fn("parse_int")}

\* the generators called with a range of arguments: counts from zero to
\* more than any input holds, character sets from empty to all of Chars,
\* prefixes from empty to as long as the longest input
CharacterSets == {{}, {"-", "+"}, {"0", "7"}, {" "}, Chars}
Prefixes == StringsUpTo(1) \cup {<<"-", "7">>, <<"7", "7">>, <<" ", " ">>} \cup {[i \in 1..MaxLen |-> "7"]}
Generated ==
    {take_n(n) : n \in 0..(MaxLen + 1)}
        \cup {get_char_in(cs) : cs \in CharacterSets}
        \cup {get(prefix) : prefix \in Prefixes}

\* every one-parser combinator applied to p
Wrap(p) ==
    {star(p), star_join(p), optional(p), fails(p)}
        \cup {transform(p, f) : f \in Transformers}
        \cup {ignore_whitespace(p, m) : m \in IgnoreWhitespaceType}

\* sub-parsers of the many-parser combinators; the last one raises TypeError
\* on every input (star_join of a parser whose value is None)
Parts == {get(<<"-">>), Fn("digit"), Fn("noop"), star_join(Fn("noop"))}
PartSeqs == {<<a>> : a \in Parts} \cup {<<a, b>> : a \in Parts, b \in Parts}

Sequenced ==
    {chain(ps, skip) : ps \in PartSeqs, skip \in BOOLEAN}
        \cup {chain_join(ps) : ps \in PartSeqs}
        \cup {any_of(ps, alo) : ps \in PartSeqs, alo \in BOOLEAN}

SignedDigit == <<get(<<"-">>), Fn("digit")>>
Composite ==
    {chain(SignedDigit, FALSE), chain_join(SignedDigit),
     any_of(SignedDigit, TRUE), any_of(SignedDigit, FALSE)}

\* the parsers the one-parser combinators are applied to; the last one
\* succeeds with value None where no digit follows, consuming the
\* whitespace in front of it, and fails in front of a digit
Inner ==
    Base \cup Composite
        \cup {optional(Fn("digit")), ignore_whitespace(fails(Fn("digit")), "AFTER")}

\* the parsers of the result protocol
Parsers == Base \cup Generated \cup Sequenced \cup UNION {Wrap(p) : p \in Inner}

\* finalize(...) leaves the protocol: it returns a bare value or raises
Finalized == {finalize(p, allow) : p \in Base \cup Composite, allow \in BOOLEAN}

Callables == Parsers \cup Finalized

\* chain, chain_join and any_of called with no parser at all, under every
\* value of their keyword option
EmptyCalls ==
    {chain(<<>>, skip) : skip \in BOOLEAN}
        \cup {chain_join(<<>>)}
        \cup {any_of(<<>>, alo) : alo \in BOOLEAN}

\* the factory calls the model evaluates
Calls == Callables \cup EmptyCalls

(***************************************************************************)
(* The state machine: a factory is called and returns a callable or       *)
(* raises; the callable is called on an input.                             *)
(* A call of a star / star_join parser is followed through its while loop  *)
(* one iteration at a time; every other call is one step.                  *)
(***************************************************************************)
\* the locals of an invocation that has not started
NewFrame ==
    [in_str |-> <<>>, pc |-> "ready", out |-> NoOut, results |-> <<>>,
     joined_result |-> <<>>, success |-> FALSE, result |-> None, rest |-> <<>>,
     p_index |-> 0]

Init ==
    /\ parser \in Calls
    /\ in_str = <<>>
    /\ pc = "build"
    /\ out = NoOut
    /\ results = <<>>
    /\ joined_result = <<>>
    /\ success = FALSE
    /\ result = None
    /\ rest = <<>>
    /\ p_index = 0
    /\ suspended = NewFrame

\* Build accepting any_of() with no parser when at_least_one is False
Build_option(p) ==
    IF /\ p.t \in {"chain", "chain_join", "any_of"}
       /\ Len(p.parsers) = 0
       /\ ~(p.t = "any_of" /\ ~p.at_least_one)
    THEN Raise("ValueError")
    ELSE RetValue(p)

\* the body of a factory up to its return: chain, chain_join and any_of
\* raise ValueError if len(parsers) == 0, whatever the keyword option; no
\* other factory checks anything.  The callable is returned otherwise.
Build(p) ==
    IF p.t \in {"chain", "chain_join", "any_of"} /\ Len(p.parsers) = 0
    THEN Raise("ValueError")
    ELSE RetValue(p)

\* the factory call: the callable is ready to be called, or the call raised
Construct ==
    /\ pc = "build"
    /\ IF Build(parser).kind = "raise"
       THEN /\ out' = Build(parser)
            /\ pc' = "raised"
       ELSE /\ out' = out
            /\ pc' = "ready"
    /\ UNCHANGED <<p_index, suspended, parser, in_str, results, joined_result, success, result, rest>>

\* the assignment  success, result, rest = parser(arg)  inside a loop: the
\* locals take the triple, or the call ends with the inner call's outcome
Assign(r) ==
    IF r.kind = "ret"
    THEN /\ success' = r.success
         /\ result' = r.value
         /\ rest' = r.rest
         /\ pc' = "loop"
         /\ out' = out
    ELSE /\ out' = r
         /\ pc' = "done"
         /\ UNCHANGED <<success, result, rest>>

\* a call of any parser but star / star_join, and of no finalized callable
Invoke ==
    /\ pc = "ready"
    /\ parser.t \notin {"star", "star_join", "finalize"}
    /\ \E s \in Inputs :
          /\ in_str' = s
          /\ out' = Run(parser, s)
    /\ pc' = "done"
    /\ UNCHANGED <<p_index, suspended, parser, results, joined_result, success, result, rest>>

\* finalize_parser(in_str)
FinalizeInvoke ==
    /\ pc = "ready"
    /\ parser.t = "finalize"
    /\ \E s \in Inputs :
          /\ in_str' = s
          /\ out' = finalize_parser(parser.parser, parser.allow_unparsed_remaining, s)
    /\ pc' = "done"
    /\ UNCHANGED <<p_index, suspended, parser, results, joined_result, success, result, rest>>

\* star_parser: results = []; success, result, rest = parser(in_str)
StarEnter ==
    /\ pc = "ready"
    /\ parser.t = "star"
    /\ results' = <<>>
    /\ \E s \in Inputs :
          /\ in_str' = s
          /\ Assign(Run(parser.parser, s))
    /\ UNCHANGED <<p_index, suspended, parser, joined_result>>

\* star_parser calling the inner parser on the whole input again
StarIterate_restart ==
    /\ pc = "loop"
    /\ parser.t = "star"
    /\ success
    /\ Len(results) < MaxIter
    /\ results' = Append(results, result)
    /\ Assign(Run(parser.parser, in_str))
    /\ UNCHANGED <<p_index, suspended, parser, in_str, joined_result>>

\* star_parser, one iteration of the while loop.  The list grows without
\* bound when the inner parser keeps succeeding; the model follows the
\* loop for MaxIter iterations.
StarIterate ==
    /\ pc = "loop"
    /\ parser.t = "star"
    /\ success
    /\ Len(results) < MaxIter
    /\ results' = Append(results, result)
    /\ Assign(Run(parser.parser, rest))
    /\ UNCHANGED <<p_index, suspended, parser, in_str, joined_result>>

\* star_parser returning the whole input as remainder
StarReturn_input ==
    /\ pc = "loop"
    /\ parser.t = "star"
    /\ ~success
    /\ out' = Ret(TRUE, ListVal(results), in_str)
    /\ pc' = "done"
    /\ UNCHANGED <<p_index, suspended, parser, in_str, results, joined_result, success, result, rest>>

\* star_parser: return True, results, rest
\* star_parser leaving the loop whether or not the latest call succeeded
StarReturn_early ==
    /\ pc = "loop"
    /\ parser.t = "star"
    /\ out' = Ret(TRUE, ListVal(results), rest)
    /\ pc' = "done"
    /\ UNCHANGED <<p_index, suspended, parser, in_str, results, joined_result, success, result, rest>>

StarReturn ==
    /\ pc = "loop"
    /\ parser.t = "star"
    /\ ~success
    /\ out' = Ret(TRUE, ListVal(results), rest)
    /\ pc' = "done"
    /\ UNCHANGED <<p_index, suspended, parser, in_str, results, joined_result, success, result, rest>>

\* star_join_parser: joined_result = ''; success, result, rest = parser(in_str)
StarJoinEnter ==
    /\ pc = "ready"
    /\ parser.t = "star_join"
    /\ joined_result' = <<>>
    /\ \E s \in Inputs :
          /\ in_str' = s
          /\ Assign(Run(parser.parser, s))
    /\ UNCHANGED <<p_index, suspended, parser, results>>

\* star_join_parser, one iteration of the while loop; joined_result += result
\* raises TypeError unless result is a str.  (An iteration that appends ''
\* and leaves the remainder unchanged changes nothing: the loop spins.)
StarJoinIterate ==
    /\ pc = "loop"
    /\ parser.t = "star_join"
    /\ success
    /\ IF result.k = "str"
       THEN /\ joined_result' = joined_result \o result.s
            /\ Assign(Run(parser.parser, rest))
       ELSE /\ out' = Raise("TypeError")
            /\ pc' = "done"
            /\ UNCHANGED <<joined_result, success, result, rest>>
    /\ UNCHANGED <<p_index, suspended, parser, in_str, results>>

\* star_join_parser: return True, joined_result, rest
StarJoinReturn ==
    /\ pc = "loop"
    /\ parser.t = "star_join"
    /\ ~success
    /\ out' = Ret(TRUE, StrVal(joined_result), rest)
    /\ pc' = "done"
    /\ UNCHANGED <<p_index, suspended, parser, in_str, results, joined_result, success, result, rest>>

Next ==
    \/ Construct
    \/ Invoke
    \/ FinalizeInvoke
    \/ StarEnter
    \/ StarIterate
    \/ StarReturn
    \/ StarJoinEnter
    \/ StarJoinIterate
    \/ StarJoinReturn

Spec == Init /\ [][Next]_vars

(***************************************************************************)
(* Two invocations of the same callable, interleaved.  Each invocation has *)
(* its own locals (a call of star_parser, star_join_parser or chain_parser *)
(* creates a new frame); the callable and what its closure captured        *)
(* (parser, parsers, the keyword options) are shared and never assigned.   *)
(* One invocation runs at a time; a switch of threads suspends it between  *)
(* two steps and resumes the other.  Calls of chain parsers are followed   *)
(* through their for loop one sub-parser at a time.                        *)
(***************************************************************************)
ConcInputs == {s \in Inputs : \A i \in 1..Len(s) : s[i] \in {"-", "7"}}

ConcCalls ==
    {star(chain(SignedDigit, FALSE)),
     star(transform(chain_join(SignedDigit), "int")),
     star_join(Fn("digit")),
     star_join(chain_join(SignedDigit)),
     chain(SignedDigit, FALSE),
     chain(<<Fn("noop"), star(Fn("digit")), get(<<"-">>)>>, TRUE),
     transform(star_join(Fn("digit")), "int"),
     finalize(chain(SignedDigit, FALSE), TRUE)}

\* chain_parser: results = []; rest = in_str; the for loop starts
ChainEnter ==
    /\ pc = "ready"
    /\ parser.t = "chain"
    /\ \E s \in ConcInputs :
          /\ in_str' = s
          /\ rest' = s
    /\ results' = <<>>
    /\ p_index' = 1
    /\ pc' = "loop"
    /\ UNCHANGED <<suspended, parser, out, joined_result, success, result>>

\* chain_parser, one iteration of the for loop
ChainIterate ==
    /\ pc = "loop"
    /\ parser.t = "chain"
    /\ p_index <= Len(parser.parsers)
    /\ LET r == Run(parser.parsers[p_index], rest)
       IN  IF r.kind # "ret"
           THEN /\ out' = r
                /\ pc' = "done"
                /\ UNCHANGED <<success, result, rest, results, p_index>>
           ELSE /\ success' = r.success
                /\ result' = r.value
                /\ rest' = r.rest
                /\ IF ~r.success
                   THEN /\ out' = Ret(FALSE, None, in_str)
                        /\ pc' = "done"
                        /\ UNCHANGED <<results, p_index>>
                   ELSE /\ results' = IF r.value # None \/ ~parser.skip_none_result
                                      THEN Append(results, r.value) ELSE results
                        /\ p_index' = p_index + 1
                        /\ UNCHANGED <<out, pc>>
    /\ UNCHANGED <<suspended, parser, in_str, joined_result>>

\* chain_parser: return True, results, rest
ChainReturn ==
    /\ pc = "loop"
    /\ parser.t = "chain"
    /\ p_index > Len(parser.parsers)
    /\ out' = Ret(TRUE, ListVal(results), rest)
    /\ pc' = "done"
    /\ UNCHANGED <<p_index, suspended, parser, in_str, results, joined_result, success, result, rest>>

\* the locals of the running invocation
Frame ==
    [in_str |-> in_str, pc |-> pc, out |-> out, results |-> results,
     joined_result |-> joined_result, success |-> success, result |-> result,
     rest |-> rest, p_index |-> p_index]

\* a switch that leaves the list  results  to the other invocation, as if
\* the closure held it
Switch_shared ==
    /\ pc \notin {"build", "raised"}
    /\ suspended' = Frame
    /\ in_str' = suspended.in_str
    /\ pc' = suspended.pc
    /\ out' = suspended.out
    /\ results' = results
    /\ joined_result' = suspended.joined_result
    /\ success' = suspended.success
    /\ result' = suspended.result
    /\ rest' = suspended.rest
    /\ p_index' = suspended.p_index
    /\ UNCHANGED parser

\* the running invocation is suspended with its locals and the other one
\* resumes with its own
Switch ==
    /\ pc \notin {"build", "raised"}
    /\ suspended' = Frame
    /\ in_str' = suspended.in_str
    /\ pc' = suspended.pc
    /\ out' = suspended.out
    /\ results' = suspended.results
    /\ joined_result' = suspended.joined_result
    /\ success' = suspended.success
    /\ result' = suspended.result
    /\ rest' = suspended.rest
    /\ p_index' = suspended.p_index
    /\ UNCHANGED parser

\* the callable is called once more by a thread whose call has ended: a
\* new frame
CallAgain ==
    /\ pc = "done"
    /\ in_str' = NewFrame.in_str
    /\ pc' = NewFrame.pc
    /\ out' = NewFrame.out
    /\ results' = NewFrame.results
    /\ joined_result' = NewFrame.joined_result
    /\ success' = NewFrame.success
    /\ result' = NewFrame.result
    /\ rest' = NewFrame.rest
    /\ p_index' = NewFrame.p_index
    /\ UNCHANGED <<parser, suspended>>

\* a step of the running invocation, on an input of ConcInputs; a call of a
\* chain parser is left to ChainEnter
ConcStep ==
    /\ parser.t = "chain" => pc = "build"
    /\ Next
    /\ in_str' \in ConcInputs

ConcInit ==
    /\ parser \in ConcCalls
    /\ in_str = <<>>
    /\ pc = "build"
    /\ out = NoOut
    /\ results = <<>>
    /\ joined_result = <<>>
    /\ success = FALSE
    /\ result = None
    /\ rest = <<>>
    /\ p_index = 0
    /\ suspended = NewFrame

ConcNext ==
    \/ ConcStep
    \/ ChainEnter
    \/ ChainIterate
    \/ ChainReturn
    \/ Switch
    \/ CallAgain

ConcSpec == ConcInit /\ [][ConcNext]_vars

(***************************************************************************)
(* Properties                                                              *)
(***************************************************************************)
\* r is a suffix of s
IsSuffix(r, s) == Len(r) <= Len(s) /\ SubSeq(s, Len(s) - Len(r) + 1, Len(s)) = r

\* the call has returned a triple of the result protocol
Returned3 == pc = "done" /\ out.kind = "ret"

\* The loop followed step by step and the loop run in one go (star_parser,
\* star_join_parser, as used inside other parsers) are one and the same:
\* they end with the same outcome, and a loop still running after MaxIter
\* iterations is one that star_loop reports as never ending.
StepwiseAgrees ==
    /\ (pc = "done" /\ parser.t \in {"star", "star_join"}) => out = Run(parser, in_str)
    /\ (pc = "loop" /\ parser.t = "star" /\ success /\ Len(results) >= MaxIter)
            => Run(parser, in_str) = Diverge

\* C1 (rollback invariant): whenever a parser of the library returns
\* failure, the remainder it returns is exactly the input it was given.
C1_Rollback ==
    (Returned3 /\ ~out.success) => out.rest = in_str

\* a chain whose first sub-parser succeeded and consumed input, and whose
\* second failed: the chain fails
C1_Witness ==
    /\ Returned3
    /\ parser.t = "chain"
    /\ Len(parser.parsers) = 2
    /\ ~out.success
    /\ LET first == Run(parser.parsers[1], in_str)
       IN  first.kind = "ret" /\ first.success /\ first.rest # in_str

\* C2 (suffix contract): the remainder a parser returns is a suffix of its
\* input, on success and on failure; so is the remainder held inside the
\* loop of star / star_join.
C2_Suffix ==
    /\ Returned3 => IsSuffix(out.rest, in_str)
    /\ pc = "loop" => IsSuffix(rest, in_str)

\* a success that consumed some of the input, not all of it
C2_Witness ==
    /\ Returned3
    /\ parser.t = "ignore_whitespace"
    /\ out.success
    /\ out.rest # in_str
    /\ out.rest # <<>>

\* parsers "produced by optional and fails"
OptionalOrFails == parser.t \in {"optional", "fails"}

\* C3 as stated: but for the parsers produced by optional and fails, the
\* value is present iff success is true.
C3_Original ==
    (Returned3 /\ ~OptionalOrFails) => (out.value # None <=> out.success)

RECURSIVE ValueAlwaysPresent(_)
\* the parsers whose success always carries a value: the generators, digit,
\* single_whitespace, all_whitespace, parse_int, star, star_join, chain,
\* chain_join, and an ignore_whitespace or an any_of(at_least_one=True) of
\* such parsers
ValueAlwaysPresent(p) ==
    \/ p.t \in {"take_n", "get_char_in", "get", "digit", "single_whitespace",
                "all_whitespace", "parse_int", "star", "star_join", "chain", "chain_join"}
    \/ p.t = "ignore_whitespace" /\ ValueAlwaysPresent(p.parser)
    \/ /\ p.t = "any_of"
       /\ p.at_least_one
       /\ \A i \in 1..Len(p.parsers) : ValueAlwaysPresent(p.parsers[i])

\* C3 (amended): a failure never carries a value; a success carries one
\* when the parser is one of ValueAlwaysPresent.  (noop, eof,
\* any_of(at_least_one=False), optional and fails report success with None.)
C3_ValueOnlyOnSuccess ==
    /\ (Returned3 /\ ~out.success) => out.value = None
    /\ (Returned3 /\ out.success /\ ValueAlwaysPresent(parser)) => out.value # None

\* any_of(..., at_least_one=False) reports success with no value
C3_Witness ==
    /\ Returned3
    /\ parser.t = "any_of"
    /\ ~parser.at_least_one
    /\ out.success
    /\ out.value = None

RECURSIVE Matches(_, _)
\* the values of the consecutive successful applications of p from s on
Matches(p, s) ==
    LET r == Run(p, s)
    IN  IF r.kind = "ret" /\ r.success THEN <<r.value>> \o Matches(p, r.rest) ELSE <<>>

RECURSIVE LastRemainder(_, _)
\* the remainder of the last of these applications, s when there is none
LastRemainder(p, s) ==
    LET r == Run(p, s)
    IN  IF r.kind = "ret" /\ r.success THEN LastRemainder(p, r.rest) ELSE s

CallInput == IF pc = "ready" THEN in_str' ELSE rest

\* a step of star's / star_join's loop whose call of the inner parser succeeded
RepetitionSucceeded ==
    /\ parser.t \in {"star", "star_join"}
    /\ pc' = "loop"
    /\ success'

\* C5 as stated: every repetition step of star and star_join either
\* consumes at least one character or ends the loop by sub-parser failure,
\* whatever library parser is repeated.
C5_Original ==
    [][RepetitionSucceeded => Len(rest') < Len(CallInput)]_vars

RECURSIVE ConsumesOnSuccess(_)
\* the parsers that cannot succeed without consuming a character
ConsumesOnSuccess(p) ==
    \/ p.t \in {"digit", "single_whitespace", "parse_int"}
    \/ p.t = "get_char_in"
    \/ p.t = "take_n" /\ p.n >= 1
    \/ p.t = "get" /\ p.prefix # <<>>
    \/ p.t \in {"transform", "ignore_whitespace"} /\ ConsumesOnSuccess(p.parser)
    \/ p.t \in {"chain", "chain_join"} /\ \E i \in 1..Len(p.parsers) : ConsumesOnSuccess(p.parsers[i])
    \/ /\ p.t = "any_of"
       /\ p.at_least_one
       /\ \A i \in 1..Len(p.parsers) : ConsumesOnSuccess(p.parsers[i])

\* star / star_join of a parser that cannot succeed without consuming
ConsumingRepetition ==
    /\ parser.t \in {"star", "star_join"}
    /\ ConsumesOnSuccess(parser.parser)

\* C5 (amended): when the repeated parser is one of ConsumesOnSuccess (and
\* these do consume on every success), every repetition step consumes at
\* least one character or ends the loop, so that the remainder shrinks
\* with every iteration and star has consumed at least one character for
\* each match it holds: the loop ends within Len(in_str) + 1 calls.
C5_ConsumingTerminates ==
    /\ [][(RepetitionSucceeded /\ ConsumesOnSuccess(parser.parser))
            => Len(rest') < Len(CallInput)]_vars
    /\ []((Returned3 /\ out.success /\ ConsumesOnSuccess(parser)) => out.rest # in_str)
    /\ []((ConsumingRepetition /\ parser.t = "star" /\ pc = "loop")
            => Len(results) + (IF success THEN 1 ELSE 0) + Len(rest) <= Len(in_str))

\* star_join(digit) has consumed every character of a three-digit input
\* and returned
C5_Witness ==
    /\ Returned3
    /\ parser = star_join(Fn("digit"))
    /\ Len(in_str) = 3
    /\ out.rest = <<>>

\* C6 (transform): for transform(p, f) on s, when p returns: if p succeeds
\* and f raises, the result is (False, None, s) and no exception escapes;
\* if p succeeds and f returns v, the result is (True, v, p's remainder);
\* if p fails, the result is p's result.
C6_Transform ==
    (pc = "done" /\ parser.t = "transform") =>
        LET inner == Run(parser.parser, in_str)
            mapped == Apply(parser.transformer, inner.value)
        IN  inner.kind = "ret" =>
                /\ (inner.success /\ ~mapped.ok) => out = Ret(FALSE, None, in_str)
                /\ (inner.success /\ mapped.ok) => out = Ret(TRUE, mapped.v, inner.rest)
                /\ ~inner.success => out = inner

\* the inner parser succeeded and consumed input, the mapping raised
C6_Witness ==
    /\ pc = "done"
    /\ parser.t = "transform"
    /\ LET inner == Run(parser.parser, in_str)
       IN  /\ inner.kind = "ret"
           /\ inner.success
           /\ inner.rest # in_str
           /\ ~Apply(parser.transformer, inner.value).ok
    /\ out = Ret(FALSE, None, in_str)

RECURSIVE InputOf(_, _, _)
\* the input of the i-th parser of a sequence applied left to right to s:
\* the remainder the (i-1)-th parser left
InputOf(ps, s, i) == IF i = 1 THEN s ELSE Run(ps[i - 1], InputOf(ps, s, i - 1)).rest

\* the i-th parser, applied to the remainder left by those before it, succeeds
SucceedsAt(ps, s, i) ==
    LET r == Run(ps[i], InputOf(ps, s, i)) IN r.kind = "ret" /\ r.success

\* the i-th parser returns a failure, all before it having succeeded
FirstFailureAt(ps, s, i) ==
    /\ \A j \in 1..(i - 1) : SucceedsAt(ps, s, j)
    /\ LET r == Run(ps[i], InputOf(ps, s, i)) IN r.kind = "ret" /\ ~r.success

RECURSIVE WithoutNone(_)
WithoutNone(l) ==
    IF l = <<>> THEN <<>>
    ELSE IF Head(l) = None THEN WithoutNone(Tail(l))
    ELSE <<Head(l)>> \o WithoutNone(Tail(l))

C8_AnyOf ==
    (pc = "done" /\ parser.t = "any_of") =>
        LET ps == parser.parsers
            n == Len(ps)
            Fails(i) == LET r == Run(ps[i], in_str) IN r.kind = "ret" /\ ~r.success
            Succeeds(i) == LET r == Run(ps[i], in_str) IN r.kind = "ret" /\ r.success
        IN  /\ \A i \in 1..n :
                ((\A j \in 1..(i - 1) : Fails(j)) /\ Succeeds(i)) => out = Run(ps[i], in_str)
            /\ (\A i \in 1..n : Fails(i)) => out = Ret(~parser.at_least_one, None, in_str)

\* the first alternative succeeds and is returned; the second one would
\* have raised had it been called
C8_Witness ==
    /\ pc = "done"
    /\ parser.t = "any_of"
    /\ Len(parser.parsers) = 2
    /\ Run(parser.parsers[2], in_str).kind = "raise"
    /\ out.kind = "ret"
    /\ out.success
    /\ out.rest # in_str

\* C9 (finalize): for finalize(p, allow_unparsed_remaining=a) on s, when
\* p returns: ValueError if p fails, whatever a; ValueError if p succeeds
\* with a non-empty remainder and a is false; otherwise p's bare value.
C9_Finalize ==
    (pc = "done" /\ parser.t = "finalize") =>
        LET inner == Run(parser.parser, in_str)
            a == parser.allow_unparsed_remaining
        IN  inner.kind = "ret" =>
                /\ ~inner.success => out = Raise("ValueError")
                /\ (inner.success /\ inner.rest # <<>> /\ ~a) => out = Raise("ValueError")
                /\ (inner.success /\ (inner.rest = <<>> \/ a)) => out = RetValue(inner.value)

\* leftover input is discarded when allow_unparsed_remaining is true
C9_Witness ==
    /\ pc = "done"
    /\ parser.t = "finalize"
    /\ parser.allow_unparsed_remaining
    /\ Run(parser.parser, in_str).rest # <<>>
    /\ out.kind = "value"
    /\ out.value # None

Signs == {"-", "+"}

RECURSIVE DigitRun(_)
\* the length of the longest run of digits s starts with
DigitRun(s) == IF s # <<>> /\ Head(s) \in DigitChars THEN 1 + DigitRun(Tail(s)) ELSE 0

RECURSIVE Denoted(_, _)
\* the number a run of digits denotes, read from the left
Denoted(ds, acc) == IF ds = <<>> THEN acc ELSE Denoted(Tail(ds), 10 * acc + DigitValue(Head(ds)))

\* C10 (parse_int): parse_int(s) succeeds iff s starts with at most one
\* sign immediately followed by at least one digit; the value is then the
\* integer the sign and the longest run of digits denote, the remainder
\* what follows the run; otherwise the result is (False, None, s).
C10_ParseInt ==
    (pc = "done" /\ parser = Fn("parse_int")) =>
        LET signed == in_str # <<>> /\ Head(in_str) \in Signs
            body == IF signed THEN Tail(in_str) ELSE in_str
            k == DigitRun(body)
            magnitude == Denoted(SubSeq(body, 1, k), 0)
        IN  out = IF k >= 1
                  THEN Ret(TRUE,
                           IntVal(IF signed /\ Head(in_str) = "-" THEN 0 - magnitude ELSE magnitude),
                           SubSeq(body, k + 1, Len(body)))
                  ELSE Ret(FALSE, None, in_str)

\* a sign with no digit after it: the sign is rolled back
C10_Witness ==
    /\ pc = "done"
    /\ parser = Fn("parse_int")
    /\ Len(in_str) = 3
    /\ Head(in_str) \in Signs
    /\ in_str[2] \notin DigitChars
    /\ out = Ret(FALSE, None, in_str)

\* C11 (ignore_whitespace): ignore_whitespace(p, m)(s) calls p on s with its
\* leading whitespace removed when m is BEFORE or AROUND and on s itself
\* when m is AFTER; when p succeeds the result is p's value with p's
\* remainder, stripped of leading whitespace when m is AFTER or AROUND and
\* untouched when m is BEFORE; when p fails the result is (False, None, s)
\* with s the untrimmed input.
C11_IgnoreWhitespace ==
    (pc = "done" /\ parser.t = "ignore_whitespace") =>
        LET m == parser.ignore_whitespace_type
            arg == IF m \in {"BEFORE", "AROUND"} THEN LStrip(in_str) ELSE in_str
            r == Run(parser.parser, arg)
        IN  out = IF r.kind # "ret" THEN r
                  ELSE IF r.success
                  THEN Ret(TRUE, r.value,
                           IF m \in {"AFTER", "AROUND"} THEN LStrip(r.rest) ELSE r.rest)
                  ELSE Ret(FALSE, None, in_str)

\* the inner parser fails after leading whitespace was stripped: the
\* whitespace is given back
C11_Witness ==
    /\ pc = "done"
    /\ parser.t = "ignore_whitespace"
    /\ parser.ignore_whitespace_type = "AROUND"
    /\ LStrip(in_str) # in_str
    /\ LStrip(in_str) # <<>>
    /\ ~Run(parser.parser, LStrip(in_str)).success
    /\ out = Ret(FALSE, None, in_str)

\* C12 (optional): optional(p)(s) reports success whenever p(s) returns;
\* when p succeeds the value and the remainder are p's, and when p fails
\* the result is (True, None, s): nothing is consumed.
C12_Optional ==
    (pc = "done" /\ parser.t = "optional") =>
        LET r == Run(parser.parser, in_str)
        IN  IF r.kind = "ret"
            THEN /\ out.kind = "ret"
                 /\ out.success
                 /\ r.success => (out.value = r.value /\ out.rest = r.rest)
                 /\ ~r.success => out = Ret(TRUE, None, in_str)
            ELSE out = r

\* the inner chain matched its first part and then failed: optional
\* succeeds with no value and the whole input
C12_Witness ==
    /\ pc = "done"
    /\ parser.t = "optional"
    /\ parser.parser.t = "chain"
    /\ in_str # <<>>
    /\ Head(in_str) = "-"
    /\ ~Run(parser.parser, in_str).success
    /\ out = Ret(TRUE, None, in_str)

\* C13 (fails): whenever p(s) returns, fails(p)(s) is exactly
\* (not success of p(s), None, s): it succeeds iff p fails, carries no
\* value, and its remainder is the whole input even when p consumed some.
C13_Fails ==
    (pc = "done" /\ parser.t = "fails") =>
        LET r == Run(parser.parser, in_str)
        IN  out = IF r.kind = "ret" THEN Ret(~r.success, None, in_str) ELSE r

\* the inner parser succeeded and consumed input: fails reports failure
\* and gives the whole input back
C13_Witness ==
    /\ pc = "done"
    /\ parser.t = "fails"
    /\ Run(parser.parser, in_str).success
    /\ Run(parser.parser, in_str).rest # in_str
    /\ out = Ret(FALSE, None, in_str)

\* the factory call in hand is chain, chain_join or any_of with no parser
NoParsers ==
    /\ parser.t \in {"chain", "chain_join", "any_of"}
    /\ parser.parsers = <<>>

\* C14 (construction): chain, chain_join and any_of called with no parser
\* raise ValueError when the combinator is built, whatever the keyword
\* option, and that is the end: no input is ever processed; a factory
\* given one or more parsers, and every other factory, never raises.
C14_Construction ==
    /\ [](pc # "build" =>
            IF NoParsers
            THEN pc = "raised" /\ out = Raise("ValueError") /\ in_str = <<>>
            ELSE pc # "raised")
    /\ [][pc' = "raised" => pc = "build"]_vars
    /\ [][pc # "raised"]_vars

\* any_of() with at_least_one=False raised at build time
C14_Witness ==
    /\ pc = "raised"
    /\ parser = any_of(<<>>, FALSE)
    /\ out = Raise("ValueError")

RECURSIVE JoinValues(_)
\* the values of a list concatenated in order, a value None adding nothing
JoinValues(l) ==
    IF l = <<>> THEN <<>>
    ELSE (IF Head(l).k = "str" THEN Head(l).s ELSE <<>>) \o JoinValues(Tail(l))

\* star(p)(s) returned, and every value it collected is a str or None
StarCollectsStrings(p, s) ==
    LET st == Run(star(p), s)
    IN  /\ st.kind = "ret"
        /\ \A i \in 1..Len(st.value.l) : st.value.l[i].k \in {"str", "None"}

\* C15 (star_join as star): whenever star(p)(s) returns and the values it
\* collected are strings or None, star_join(p)(s) returns success without
\* raising, its value is the concatenation in order of the values star
\* collected, and its remainder is star's.
C15_Original ==
    (pc = "done" /\ parser.t = "star_join" /\ StarCollectsStrings(parser.parser, in_str)) =>
        LET st == Run(star(parser.parser), in_str)
        IN  out = Ret(TRUE, StrVal(JoinValues(st.value.l)), st.rest)

\* what does hold: the same when every value star collected is a str
C15_StrOnly ==
    (pc = "done" /\ parser.t = "star_join") =>
        LET st == Run(star(parser.parser), in_str)
        IN  (st.kind = "ret" /\ \A i \in 1..Len(st.value.l) : st.value.l[i].k = "str")
                => out = Ret(TRUE, StrVal(JoinValues(st.value.l)), st.rest)

\* star_join raised TypeError on an input on which star returns
C15_Raises ==
    /\ pc = "done"
    /\ parser.t = "star_join"
    /\ StarCollectsStrings(parser.parser, in_str)
    /\ out = Raise("TypeError")

\* the condition under which the generator in hand is to succeed, and the
\* length its value is to have
GeneratorMatches ==
    CASE parser.t = "take_n" -> Len(in_str) >= parser.n
      [] parser.t = "get_char_in" -> in_str # <<>> /\ Head(in_str) \in parser.character_set
      [] parser.t = "get" ->
            /\ Len(parser.prefix) <= Len(in_str)
            /\ \A i \in 1..Len(parser.prefix) : in_str[i] = parser.prefix[i]
GeneratorLength ==
    CASE parser.t = "take_n" -> parser.n
      [] parser.t = "get_char_in" -> 1
      [] parser.t = "get" -> Len(parser.prefix)

\* C16 (generators): take_n(n) succeeds iff the input has at least n
\* characters, get_char_in(cs) iff the input is non-empty and its first
\* character is in cs, get(prefix) iff the input starts with prefix; on
\* success the value is a string of length n, 1, len(prefix) and value
\* followed by remainder is the input; on failure the result is
\* (False, None, s).
C16_Generators ==
    (pc = "done" /\ parser.t \in {"take_n", "get_char_in", "get"}) =>
        /\ out.kind = "ret"
        /\ out.success <=> GeneratorMatches
        /\ out.success =>
              /\ out.value.k = "str"
              /\ Len(out.value.s) = GeneratorLength
              /\ out.value.s \o out.rest = in_str
        /\ ~out.success => out = Ret(FALSE, None, in_str)

\* get of a two-character prefix matched a longer input
C16_Witness ==
    /\ pc = "done"
    /\ parser.t = "get"
    /\ Len(parser.prefix) = 2
    /\ Len(in_str) = 3
    /\ out.success
    /\ out.value = StrVal(parser.prefix)
    /\ out.rest = <<in_str[3]>>

\* C17 (idempotent whitespace stripping): all_whitespace(s) always
\* succeeds; its value is the whitespace s starts with and its remainder
\* starts with no whitespace, so that all_whitespace applied to that
\* remainder returns '' and the same remainder.
C17_AllWhitespace ==
    (pc = "done" /\ parser = Fn("all_whitespace")) =>
        /\ out.kind = "ret"
        /\ out.success
        /\ out.value.k = "str"
        /\ out.value.s \o out.rest = in_str
        /\ \A i \in 1..Len(out.value.s) : IsSpace(out.value.s[i])
        /\ out.rest = <<>> \/ ~IsSpace(Head(out.rest))
        /\ Run(Fn("all_whitespace"), out.rest) = Ret(TRUE, StrVal(<<>>), out.rest)

\* two whitespace characters were consumed in front of a third character
C17_Witness ==
    /\ pc = "done"
    /\ parser = Fn("all_whitespace")
    /\ Len(in_str) = 3
    /\ out.kind = "ret"
    /\ out.value = StrVal(<<" ", " ">>)
    /\ Len(out.rest) = 1

\* C18 (statelessness under interleaving): however two invocations of the
\* same callable are interleaved, and whatever calls came before, an
\* invocation that ends has the outcome of a lone call on its input.
C18_Stateless ==
    /\ pc = "done" => out = Run(parser, in_str)
    /\ suspended.pc = "done" => suspended.out = Run(parser, suspended.in_str)

\* an invocation on one input ended while the other invocation, on a
\* different input, was suspended inside its loop holding a result
C18_Witness ==
    /\ pc = "done"
    /\ out.kind = "ret"
    /\ out.success
    /\ out.rest # in_str
    /\ suspended.pc = "loop"
    /\ suspended.in_str # in_str
    /\ suspended.results # <<>>

\* s is empty or starts with something that is no digit
NoDigitAhead(s) == s = <<>> \/ Head(s) \notin DigitChars

\* C19 (greedy repetition): when star(p)(s) or star_join(p)(s) returns
\* with remainder r, p fails on r; the remainder of star(digit) never
\* starts with a digit, nor does the remainder of a successful parse_int.
C19_Greedy ==
    /\ (Returned3 /\ parser.t \in {"star", "star_join"}) =>
          LET r == Run(parser.parser, out.rest)
          IN  r.kind = "ret" /\ ~r.success
    /\ (Returned3 /\ parser \in {star(Fn("digit")), star_join(Fn("digit"))}) =>
          NoDigitAhead(out.rest)
    /\ (Returned3 /\ parser = Fn("parse_int") /\ out.success) =>
          NoDigitAhead(out.rest)

\* star(digit) took two digits and stopped in front of a third character
\* that is no digit
C19_Witness ==
    /\ Returned3
    /\ parser = star(Fn("digit"))
    /\ Len(in_str) = 3
    /\ out.value = ListVal(<<StrVal(<<in_str[1]>>), StrVal(<<in_str[2]>>)>>)
    /\ Len(out.rest) = 1
    /\ ~Run(Fn("digit"), out.rest).success

====
